---- MODULE Spec2Model ----
(***************************************************************************)
(* The item service of function_app.py: five HTTP handlers over one table  *)
(* `items`, sharing the module-level psycopg2 SimpleConnectionPool         *)
(* `db_pool`.  Handler invocations run on the host's worker threads, so    *)
(* their steps interleave.  SimpleConnectionPool takes no lock (it is      *)
(* AbstractConnectionPool's _getconn/_putconn used directly), so getconn   *)
(* and putconn are modelled by the steps of their bodies between which the *)
(* interpreter can switch threads.                                         *)
(***************************************************************************)
EXTENDS Integers, Sequences, FiniteSets, TLC

\* ---------------------------------------------------------------- bounds
MaxInv == 2         \* handler invocations explored

\* ------------------------------------------------------ program constants
minconn == 1
maxconn == 10

\* Worker threads of the host that run handler invocations.
Procs == {"t1", "t2"}

\* Request bodies: unparsable text, JSON that is no object, or an object
\* with the fields it carries ("" is the empty string).
NoBody == [kind |-> "none", fields |-> <<>>]
Object(f) == [kind |-> "object", fields |-> f]
Bodies ==
    { [kind |-> "invalid", fields |-> <<>>],
      [kind |-> "array", fields |-> <<>>],
      Object([description |-> "D"]),
      Object([name |-> "C", description |-> ""]),
      Object([name |-> "C", description |-> "D"]) }

\* Python's None, as req_body.get returns it for an absent field.
None == "<None>"
\* req_body.get(k)
Get(body, k) == IF k \in DOMAIN body.fields THEN body.fields[k] ELSE None
\* `not v`
Not(v) == v \in {None, ""}
\* A presence check that looks at name alone.
MissingNameOnly(body) == Not(Get(body, "name"))
\* `not name or not description`
Missing(body) == Not(Get(body, "name")) \/ Not(Get(body, "description"))

\* Route parameter {id}: a string, numeric or not.
PathIds == {"1", "2", "abc"}
\* The server's cast of the parameter to the integer column type.
IsNumeric(s) == \E i \in 0..9 : ToString(i) = s
ToInt(s) == CHOOSE i \in 0..9 : ToString(i) = s

VARIABLES
    items,      \* committed rows of table items: id -> [name, description]
    seq,        \* last value handed out by the id sequence
    txn,        \* connection -> uncommitted writes of its open transaction
    aborted,    \* connections whose open transaction is in the failed state
    closed,     \* connections that were closed
    pool,       \* db_pool._pool: idle connections
    used,       \* db_pool._used: key -> connection
    rused,      \* db_pool._rused: connection -> key
    keys,       \* db_pool._keys
    inv,        \* per worker thread: the handler invocation it runs
    out,        \* the HTTP response the last step returned, if it returned one
    calls,      \* handler invocations started so far
    leaked,     \* history: connections whose handler left through an except
                \* clause after get_db_connection had returned them
    obs         \* history, per thread: the committed rows when its statement
                \* ran, while no other thread has changed them since

vars == <<items, seq, txn, aborted, closed, pool, used, rused, keys, inv, out, calls, leaked,
          obs>>

\* ------------------------------------------------------------- responses
DbErrText == "Database error occurred."
UnexpectedText == "An unexpected error occurred."
MissingText == "Missing 'name' or 'description' in the request body."

NoResp == [status |-> 0, text |-> "", id |-> 0, name |-> "", description |-> "", rows |-> {}]
TextResp(code, t) == [NoResp EXCEPT !.status = code, !.text = t]

\* A response that carries the text of the exception.
DatabaseErrorDetail == TextResp(500, "connection to server failed")
\* except psycopg2.DatabaseError -> 500 "Database error occurred."
DatabaseErrorResp == TextResp(500, DbErrText)
\* except Exception -> 500 "An unexpected error occurred."
ExceptionResp == TextResp(500, UnexpectedText)
\* `if not name or not description: return ... status_code=400`
BadRequestResp == TextResp(400, MissingText)

\* ------------------------------------------------------- invocation state
NoRes == [id |-> 0, rows |-> {}]
Blank == [pc |-> "idle", op |-> "", path |-> "", body |-> NoBody,
          tmp |-> 0, key |-> 0, conn |-> 0, res |-> NoRes]
NoOut == [op |-> "", body |-> NoBody, resp |-> NoResp]

\* Thread p starts handler o on a request and reaches get_db_connection,
\* where _getkey loads self._keys.
Enter(p, o, path, body) ==
    /\ calls < MaxInv
    /\ calls' = calls + 1
    /\ inv' = [inv EXCEPT ![p] = [Blank EXCEPT !.pc = "getconn", !.op = o, !.path = path,
                                               !.body = body, !.tmp = keys]]
    /\ out' = NoOut

\* Thread p's handler o returns r before it asked for a connection.
Reject(p, o, body, r) ==
    /\ calls < MaxInv
    /\ calls' = calls + 1
    /\ inv' = [inv EXCEPT ![p] = Blank]
    /\ out' = [op |-> o, body |-> body, resp |-> r]

\* The invocation of thread p returns response r: its locals are gone.
Return(p, r) ==
    /\ inv' = [inv EXCEPT ![p] = Blank]
    /\ out' = [op |-> inv[p].op, body |-> inv[p].body, resp |-> r]
    /\ UNCHANGED calls

\* The invocation of thread p goes on, its locals changed to rec.
Continue(p, rec) ==
    /\ inv' = [inv EXCEPT ![p] = rec]
    /\ out' = NoOut
    /\ UNCHANGED calls

Free(p) == inv[p].pc = "idle"

\* ------------------------------------------------------------ the table
EmptyMap == [x \in {} |-> 0]
MapPut(f, k, v) == [x \in DOMAIN f \cup {k} |-> IF x = k THEN v ELSE f[x]]
MapDel(f, k) == [x \in DOMAIN f \ {k} |-> f[x]]

Row(n, d) == [name |-> n, description |-> d]
Write(kind, i, n, d) == [kind |-> kind, id |-> i, name |-> n, description |-> d]

\* Effect of one write on a table.
ApplyOne(tbl, w) ==
    CASE w.kind = "insert" -> MapPut(tbl, w.id, Row(w.name, w.description))
      [] w.kind = "update" -> IF w.id \in DOMAIN tbl
                              THEN MapPut(tbl, w.id, Row(w.name, w.description))
                              ELSE tbl
      [] w.kind = "delete" -> MapDel(tbl, w.id)

RECURSIVE Apply(_, _)
Apply(ws, tbl) == IF ws = <<>> THEN tbl ELSE Apply(Tail(ws), ApplyOne(tbl, Head(ws)))

\* Uncommitted writes of connection c's transaction.
Pending(c) == IF c \in DOMAIN txn THEN txn[c] ELSE <<>>
SetPending(t, c, ws) == IF ws = <<>> THEN MapDel(t, c) ELSE MapPut(t, c, ws)

\* Rows a statement on connection c sees: the committed rows and its own
\* transaction's writes.
View(c) == Apply(Pending(c), items)

\* A row another open transaction has updated or deleted is locked: an
\* UPDATE or DELETE of it waits for that transaction to end.
Locked(i, c) ==
    /\ i \in DOMAIN items
    /\ \E c2 \in DOMAIN txn \ {c} :
         \E n \in 1..Len(txn[c2]) :
            txn[c2][n].id = i /\ txn[c2][n].kind \in {"update", "delete"}

RowsOf(tbl) == {[id |-> i, name |-> tbl[i].name, description |-> tbl[i].description] :
                 i \in DOMAIN tbl}

\* ------------------------------------------------------------- the pool
Range(f) == {f[x] : x \in DOMAIN f}
SeqSet(s) == {s[n] : n \in 1..Len(s)}

\* Connection objects something still refers to.
Referenced ==
    (SeqSet(pool) \cup Range(used) \cup DOMAIN rused
        \cup {inv[p].conn : p \in Procs}) \ {0}

\* A connection object psycopg2.connect creates.
NewConn == CHOOSE c \in 1..(Cardinality(Referenced) + 1) : c \notin Referenced

\* closed and leaked keep the connections still referred to.
Forget(cl, lk) ==
    /\ closed' = cl \cap Referenced'
    /\ leaked' = lk \cap Referenced'

\* What a thread's invocation has observed of the table.
NoObs == [alone |-> FALSE, snap |-> EmptyMap]

\* The table outlives the process: at start it is empty, or holds what
\* earlier requests stored.
StoredAtStart == {EmptyMap, [i \in {1} |-> Row("A", "B")]}

\* Spec starts from the pool as constructed: minconn idle connections.
Init ==
    /\ items \in StoredAtStart
    /\ seq = Cardinality(DOMAIN items)
    /\ txn = EmptyMap
    /\ aborted = {}
    /\ closed = {}
    /\ pool = [n \in 1..minconn |-> n]
    /\ used = EmptyMap
    /\ rused = EmptyMap
    /\ keys = 0
    /\ inv = [p \in Procs |-> Blank]
    /\ out = NoOut
    /\ calls = 0
    /\ leaked = {}
    /\ obs = [p \in Procs |-> NoObs]

\* SpecNearFull starts from the pool after maxconn - 1 requests
\* GET /item/abc, each of which fails in execute and keeps its connection.
InitNearFull ==
    LET l == maxconn - 1 IN
    /\ items = EmptyMap
    /\ seq = 0
    /\ txn = EmptyMap
    /\ aborted = 1..l
    /\ closed = {}
    /\ pool = <<>>
    /\ used = [k \in 1..l |-> k]
    /\ rused = [c \in 1..l |-> c]
    /\ keys = l
    /\ inv = [p \in Procs |-> Blank]
    /\ out = NoOut
    /\ calls = 0
    /\ leaked = 1..l
    /\ obs = [p \in Procs |-> NoObs]

\* ------------------------------------------------- handlers: first lines
\* Each handler action runs the handler from its first line to the load of
\* self._keys in get_db_connection, or to the return before it.
\* req.get_json() raises on an unparsable body, req_body.get on a body that
\* is no object: both end in `except Exception`.
create_item(p) ==
    /\ Free(p)
    /\ \E body \in Bodies :
         IF body.kind # "object"
         THEN Reject(p, "create_item", body, ExceptionResp)
         ELSE IF Missing(body)
         THEN Reject(p, "create_item", body, BadRequestResp)
         ELSE Enter(p, "create_item", "", body)
    /\ UNCHANGED <<items, seq, txn, aborted, pool, used, rused, keys>>
    /\ Forget(closed, leaked)

read_item(p) ==
    /\ Free(p)
    /\ \E path \in PathIds : Enter(p, "read_item", path, NoBody)
    /\ UNCHANGED <<items, seq, txn, aborted, pool, used, rused, keys>>
    /\ Forget(closed, leaked)

update_item(p) ==
    /\ Free(p)
    /\ \E body \in Bodies :
         IF body.kind # "object"
         THEN Reject(p, "update_item", body, ExceptionResp)
         ELSE IF Missing(body)
         THEN Reject(p, "update_item", body, BadRequestResp)
         ELSE \E path \in PathIds : Enter(p, "update_item", path, body)
    /\ UNCHANGED <<items, seq, txn, aborted, pool, used, rused, keys>>
    /\ Forget(closed, leaked)

delete_item(p) ==
    /\ Free(p)
    /\ \E path \in PathIds : Enter(p, "delete_item", path, NoBody)
    /\ UNCHANGED <<items, seq, txn, aborted, pool, used, rused, keys>>
    /\ Forget(closed, leaked)

get_all_items(p) ==
    /\ Free(p)
    /\ Enter(p, "get_all_items", "", NoBody)
    /\ UNCHANGED <<items, seq, txn, aborted, pool, used, rused, keys>>
    /\ Forget(closed, leaked)

\* ------------------------------------- get_db_connection: db_pool.getconn()
\* SimpleConnectionPool.getconn is AbstractConnectionPool._getconn, run
\* without a lock.  _getkey's `self._keys += 1` loaded self._keys when the
\* handler reached the call (tmp); this step is its store and the rest of
\* _getconn up to the connect: `if key in self._used: return
\* self._used[key]`, `if self._pool: ... self._pool.pop()`, and
\* `if len(self._used) == self.maxconn: raise PoolError` (PoolError is no
\* DatabaseError).
\* A pool that never reports exhaustion.
NeverExhausted == FALSE
\* `if len(self._used) == self.maxconn`
Exhausted == Cardinality(DOMAIN used) = maxconn

getconn(p) ==
    LET key == inv[p].tmp + 1 IN
    /\ inv[p].pc = "getconn"
    /\ keys' = key
    /\ IF key \in DOMAIN used
       THEN /\ Continue(p, [inv[p] EXCEPT !.pc = "execute", !.tmp = 0, !.key = key,
                                          !.conn = used[key]])
            /\ UNCHANGED <<pool, used, rused>>
       ELSE IF pool # <<>>
       THEN LET c == pool[Len(pool)] IN
            /\ pool' = SubSeq(pool, 1, Len(pool) - 1)
            /\ used' = MapPut(used, key, c)
            /\ rused' = MapPut(rused, c, key)
            /\ Continue(p, [inv[p] EXCEPT !.pc = "execute", !.tmp = 0, !.key = key,
                                          !.conn = c])
       ELSE /\ IF Exhausted
               THEN Return(p, ExceptionResp)
               ELSE Continue(p, [inv[p] EXCEPT !.pc = "connect", !.tmp = 0, !.key = key])
            /\ UNCHANGED <<pool, used, rused>>
    /\ UNCHANGED <<items, seq, txn, aborted>>
    /\ Forget(closed, leaked)

\* `return self._connect(key)`: psycopg2.connect succeeds and the connection
\* is entered in _used and _rused, or it raises OperationalError (a
\* DatabaseError).
getconn_connect(p) ==
    /\ inv[p].pc = "connect"
    /\ \E ok \in BOOLEAN :
         IF ok
         THEN LET c == NewConn IN
              /\ used' = MapPut(used, inv[p].key, c)
              /\ rused' = MapPut(rused, c, inv[p].key)
              /\ Continue(p, [inv[p] EXCEPT !.pc = "execute", !.conn = c])
         ELSE /\ Return(p, DatabaseErrorResp)
              /\ UNCHANGED <<used, rused>>
    /\ UNCHANGED <<items, seq, txn, aborted, pool, keys>>
    /\ Forget(closed, leaked)

\* ----------------------------------- conn.cursor(), cursor.execute, fetch
StatementFails(p) ==
    \/ inv[p].conn \in aborted
    \/ inv[p].op \in {"read_item", "update_item", "delete_item"} /\ ~IsNumeric(inv[p].path)

\* conn.cursor() on a closed connection raises InterfaceError (no
\* DatabaseError); a statement the server rejects, or any statement in a
\* failed transaction, raises a DatabaseError and leaves the transaction
\* failed, its writes lost.  Nothing after the raise runs: no putconn.
execute_raises(p) ==
    LET c == inv[p].conn IN
    /\ inv[p].pc = "execute"
    /\ IF c \in closed
       THEN /\ Return(p, ExceptionResp)
            /\ UNCHANGED <<txn, aborted>>
       ELSE /\ Return(p, DatabaseErrorResp)
            /\ txn' = SetPending(txn, c, <<>>)
            /\ aborted' = aborted \cup {c}
    /\ UNCHANGED <<items, seq, pool, used, rused, keys>>
    /\ Forget(closed, leaked \cup {c})

CanExecute(p) ==
    /\ inv[p].pc = "execute"
    /\ inv[p].conn \notin closed
    /\ ~StatementFails(p)

\* INSERT INTO items (name, description) VALUES (%s, %s) RETURNING id;
InsertOf(p) ==
    Write("insert", seq + 1, Get(inv[p].body, "name"), Get(inv[p].body, "description"))

\* create_item: cursor.execute(INSERT ...); item_id = cursor.fetchone()[0]
execute_insert(p) ==
    LET c == inv[p].conn IN
    /\ CanExecute(p)
    /\ inv[p].op = "create_item"
    /\ seq' = seq + 1
    /\ txn' = SetPending(txn, c, Append(Pending(c), InsertOf(p)))
    /\ Continue(p, [inv[p] EXCEPT !.pc = "commit", !.res = [id |-> seq + 1, rows |-> {}]])
    /\ UNCHANGED <<items, aborted, pool, used, rused, keys>>
    /\ Forget(closed, leaked)

\* read_item: SELECT id, name, description FROM items WHERE id = %s;
\* item = cursor.fetchone(); cursor.close()
execute_select_one(p) ==
    LET c == inv[p].conn
        i == ToInt(inv[p].path)
    IN  /\ CanExecute(p)
        /\ inv[p].op = "read_item"
        /\ Continue(p, [inv[p] EXCEPT !.pc = "putconn",
                           !.res = [id |-> i, rows |-> {r \in RowsOf(View(c)) : r.id = i}]])
        /\ UNCHANGED <<items, seq, txn, aborted, pool, used, rused, keys>>
        /\ Forget(closed, leaked)

\* An UPDATE whose description is read from a field the body does not carry.
UpdateOfWrongField(p) ==
    Write("update", ToInt(inv[p].path), Get(inv[p].body, "name"), Get(inv[p].body, "desc"))
\* UPDATE items SET name = %s, description = %s WHERE id = %s;
UpdateOf(p) ==
    Write("update", ToInt(inv[p].path), Get(inv[p].body, "name"),
          Get(inv[p].body, "description"))

\* update_item: cursor.execute(UPDATE ...)
execute_update(p) ==
    LET c == inv[p].conn
        i == ToInt(inv[p].path)
    IN  /\ CanExecute(p)
        /\ inv[p].op = "update_item"
        /\ ~Locked(i, c)
        /\ txn' = IF i \in DOMAIN View(c)
                  THEN SetPending(txn, c, Append(Pending(c), UpdateOf(p)))
                  ELSE txn
        /\ Continue(p, [inv[p] EXCEPT !.pc = "commit"])
        /\ UNCHANGED <<items, seq, aborted, pool, used, rused, keys>>
        /\ Forget(closed, leaked)

\* DELETE FROM items WHERE id = %s;
DeleteOf(p) == Write("delete", ToInt(inv[p].path), "", "")

\* delete_item: cursor.execute(DELETE ...)
execute_delete(p) ==
    LET c == inv[p].conn
        i == ToInt(inv[p].path)
    IN  /\ CanExecute(p)
        /\ inv[p].op = "delete_item"
        /\ ~Locked(i, c)
        /\ txn' = IF i \in DOMAIN View(c)
                  THEN SetPending(txn, c, Append(Pending(c), DeleteOf(p)))
                  ELSE txn
        /\ Continue(p, [inv[p] EXCEPT !.pc = "commit"])
        /\ UNCHANGED <<items, seq, aborted, pool, used, rused, keys>>
        /\ Forget(closed, leaked)

\* get_all_items: SELECT id, name, description FROM items;
\* items = cursor.fetchall(); cursor.close()
execute_select_all(p) ==
    LET c == inv[p].conn IN
    /\ CanExecute(p)
    /\ inv[p].op = "get_all_items"
    /\ Continue(p, [inv[p] EXCEPT !.pc = "putconn",
                       !.res = [id |-> 0, rows |-> RowsOf(View(c))]])
    /\ UNCHANGED <<items, seq, txn, aborted, pool, used, rused, keys>>
    /\ Forget(closed, leaked)

\* The statement ran and the fetch after it raises: the handler returns from
\* an except clause with the statement's transaction left open.
fetch_raises(p) ==
    LET c == inv[p].conn IN
    /\ CanExecute(p)
    /\ inv[p].op \in {"create_item", "read_item", "get_all_items"}
    /\ IF inv[p].op = "create_item"
       THEN /\ seq' = seq + 1
            /\ txn' = SetPending(txn, c, Append(Pending(c), InsertOf(p)))
       ELSE UNCHANGED <<seq, txn>>
    /\ \E r \in {DatabaseErrorResp, ExceptionResp} : Return(p, r)
    /\ UNCHANGED <<items, aborted, pool, used, rused, keys>>
    /\ Forget(closed, leaked \cup {c})

\* ------------------------------------------ conn.commit(); cursor.close()
\* COMMIT makes the transaction's writes the committed rows; COMMIT of a
\* failed transaction is a rollback.
Committed(c) == IF c \in aborted THEN items ELSE Apply(Pending(c), items)

commit(p) ==
    LET c == inv[p].conn IN
    /\ inv[p].pc = "commit"
    /\ c \notin closed
    /\ items' = Committed(c)
    /\ txn' = SetPending(txn, c, <<>>)
    /\ aborted' = aborted \ {c}
    /\ Continue(p, [inv[p] EXCEPT !.pc = "putconn"])
    /\ UNCHANGED <<seq, pool, used, rused, keys>>
    /\ Forget(closed, leaked)

\* commit on a closed connection raises InterfaceError; a connection lost
\* during COMMIT raises OperationalError, the transaction committed or not.
commit_raises(p) ==
    LET c == inv[p].conn IN
    /\ inv[p].pc = "commit"
    /\ UNCHANGED <<seq, pool, used, rused, keys>>
    /\ IF c \in closed
       THEN /\ Return(p, ExceptionResp)
            /\ UNCHANGED <<items, txn, aborted>>
            /\ Forget(closed, leaked \cup {c})
       ELSE /\ \E applied \in BOOLEAN : items' = IF applied THEN Committed(c) ELSE items
            /\ txn' = SetPending(txn, c, <<>>)
            /\ aborted' = aborted \ {c}
            /\ Return(p, DatabaseErrorResp)
            /\ Forget(closed \cup {c}, leaked \cup {c})

\* ------------------------------------------------- db_pool.putconn(conn)
\* The response of a handler whose try block ran to its end.
Response(p) ==
    LET r == inv[p].res IN
    CASE inv[p].op = "create_item" ->
            [NoResp EXCEPT !.status = 201, !.id = r.id, !.text = "Item created successfully"]
      [] inv[p].op = "read_item" ->
            IF r.rows # {}
            THEN LET item == CHOOSE x \in r.rows : TRUE IN
                 [NoResp EXCEPT !.status = 200, !.id = item.id, !.name = item.name,
                                !.description = item.description]
            ELSE TextResp(404, "Item not found.")
      [] inv[p].op = "update_item" ->
            TextResp(200, "Item " \o inv[p].path \o " updated successfully.")
      [] inv[p].op = "delete_item" ->
            TextResp(200, "Item " \o inv[p].path \o " deleted successfully.")
      [] inv[p].op = "get_all_items" ->
            IF r.rows # {}
            THEN [NoResp EXCEPT !.status = 200, !.rows = r.rows]
            ELSE TextResp(404, "No items found.")

\* SimpleConnectionPool.putconn is _putconn: `key =
\* self._rused.get(id(conn))`, PoolError if None; with `len(self._pool) <
\* self.minconn` an open connection is rolled back and appended to _pool,
\* otherwise the connection is closed; then `del self._used[key]`,
\* `del self._rused[id(conn)]`; then the handler's return.
putconn(p) ==
    LET c == inv[p].conn
        keep == Len(pool) < minconn
    IN  /\ inv[p].pc = "putconn"
        /\ UNCHANGED <<items, seq, keys>>
        /\ IF c \notin DOMAIN rused
           THEN /\ Return(p, ExceptionResp)
                /\ UNCHANGED <<txn, aborted, pool, used, rused>>
                /\ Forget(closed, leaked \cup {c})
           ELSE LET k == rused[c] IN
                /\ pool' = IF keep /\ c \notin closed THEN Append(pool, c) ELSE pool
                /\ txn' = SetPending(txn, c, <<>>)
                /\ aborted' = aborted \ {c}
                /\ IF k \notin DOMAIN used
                   THEN /\ Return(p, ExceptionResp)
                        /\ UNCHANGED <<used, rused>>
                        /\ Forget(IF keep THEN closed ELSE closed \cup {c}, leaked \cup {c})
                   ELSE /\ used' = MapDel(used, k)
                        /\ rused' = MapDel(rused, c)
                        /\ Return(p, Response(p))
                        /\ Forget(IF keep THEN closed ELSE closed \cup {c}, leaked)

\* ------------------------------------------------------ specification
\* History kept for the properties: in the step in which thread p's
\* statement runs, obs[p] records the committed rows before it; a change of
\* the committed rows by another thread's step ends the record.
Observe(p) ==
    obs' = [q \in Procs |->
              IF inv'[q].pc \in {"idle", "getconn", "connect", "execute"} THEN NoObs
              ELSE IF q = p /\ inv[p].pc = "execute" THEN [alone |-> TRUE, snap |-> items]
              ELSE IF q # p /\ items' # items THEN NoObs
              ELSE obs[q]]

Next ==
    \E p \in Procs :
        \/ create_item(p) /\ Observe(p)
        \/ read_item(p) /\ Observe(p)
        \/ update_item(p) /\ Observe(p)
        \/ delete_item(p) /\ Observe(p)
        \/ get_all_items(p) /\ Observe(p)
        \/ getconn(p) /\ Observe(p)
        \/ getconn_connect(p) /\ Observe(p)
        \/ execute_raises(p) /\ Observe(p)
        \/ execute_insert(p) /\ Observe(p)
        \/ execute_select_one(p) /\ Observe(p)
        \/ execute_update(p) /\ Observe(p)
        \/ execute_delete(p) /\ Observe(p)
        \/ execute_select_all(p) /\ Observe(p)
        \/ fetch_raises(p) /\ Observe(p)
        \/ commit(p) /\ Observe(p)
        \/ commit_raises(p) /\ Observe(p)
        \/ putconn(p) /\ Observe(p)

Spec == Init /\ [][Next]_vars

SpecNearFull == InitNearFull /\ [][Next]_vars

\* ------------------------------------------------------------ properties
\* Thread p's invocation returns in this step; out' is its response.
Returns(p) == inv[p].pc # "idle" /\ inv'[p].pc = "idle"

\* Thread p's invocation of handler o returns without a failure, and no
\* other thread's step has changed the committed rows since p's statement
\* ran on the rows obs[p].snap.
Settled(p, o) ==
    /\ Returns(p)
    /\ inv[p].op = o
    /\ obs[p].alone
    /\ out'.resp.status # 500

IdOf(p) == ToInt(inv[p].path)

\* No other thread runs an update_item or delete_item of the id in p's path.
Undisturbed(p) ==
    \A q \in Procs \ {p} :
        inv[q].op \in {"update_item", "delete_item"} => inv[q].path # inv[p].path

\* A settled read_item of an id the table holds, with no update or delete of
\* that id under way, answers 200 with that row.
ReadFinds(p) ==
    Settled(p, "read_item") /\ IdOf(p) \in DOMAIN obs[p].snap /\ Undisturbed(p) =>
        out'.resp = [NoResp EXCEPT !.status = 200, !.id = IdOf(p),
                                   !.name = obs[p].snap[IdOf(p)].name,
                                   !.description = obs[p].snap[IdOf(p)].description]

\* A settled read_item of an id the table does not hold answers 404.
ReadMisses(p) ==
    Settled(p, "read_item") /\ IdOf(p) \notin DOMAIN obs[p].snap =>
        out'.resp = TextResp(404, "Item not found.")

\* C1: a create_item with name and description present and non-empty that
\* meets no failure answers 201 with a numeric id the server generated, and
\* the table then holds under that id exactly the request's name and
\* description; a read_item of an id the table holds, with no update or
\* delete of that id under way, answers 200 with the stored name and
\* description.  So a read issued after the create returns what was created.
C1_CreateThenRead ==
    [][\A p \in Procs :
         /\ Settled(p, "create_item") =>
               /\ out'.resp.status = 201
               /\ out'.resp.id \in 1..seq'
               /\ out'.resp.id \notin DOMAIN obs[p].snap
               /\ out'.resp.id \in DOMAIN items'
               /\ items'[out'.resp.id] = Row(Get(inv[p].body, "name"),
                                             Get(inv[p].body, "description"))
         /\ ReadFinds(p)]_vars

\* A field of the body is absent or empty.
Lacks(body, k) == k \notin DOMAIN body.fields \/ body.fields[k] = ""
Incomplete(body) == body.kind = "object" /\ (Lacks(body, "name") \/ Lacks(body, "description"))
Checked == {"create_item", "update_item"}

\* C2: a create_item or update_item whose body lacks name or description
\* (absent or empty) is answered 400 in one step that inserts and modifies
\* no row and takes no connection from the pool; no such request gets past
\* the presence test, and 400 is the answer to such requests only.
C2_MissingFieldRejected ==
    [][/\ \A p \in Procs : inv'[p].op \in Checked => ~Incomplete(inv'[p].body)
       /\ out'.op \in Checked /\ Incomplete(out'.body) =>
             /\ out'.resp.status = 400
             /\ UNCHANGED <<items, seq, txn, pool, used, rused, keys>>
       /\ out'.resp.status = 400 => out'.op \in Checked /\ Incomplete(out'.body)]_vars

\* Reached: an update_item without description was answered 400 while the
\* table holds a row.
C2_Witness ==
    /\ out.op = "update_item"
    /\ out.resp.status = 400
    /\ Lacks(out.body, "description")
    /\ items # EmptyMap

\* C3: an update_item with valid name and description that meets no failure
\* answers 200; if the id exists that row then holds the new name and
\* description (what a read of the id then finds) and every other row is
\* unchanged; if the id does not exist the rows are unchanged.
C3_UpdateReplacesRow ==
    [][\A p \in Procs :
         Settled(p, "update_item") =>
             /\ out'.resp.status = 200
             /\ items' = ApplyOne(obs[p].snap,
                                  Write("update", IdOf(p), Get(inv[p].body, "name"),
                                        Get(inv[p].body, "description")))]_vars

\* C4: a delete_item that meets no failure answers 200 and the table is the
\* one before it without the row of that id, all other rows unchanged (none
\* removed if the id did not exist); a read_item of an id the table does not
\* hold answers 404 "Item not found.".
C4_DeleteRemovesRow ==
    [][\A p \in Procs :
         /\ Settled(p, "delete_item") =>
               /\ out'.resp.status = 200
               /\ items' = MapDel(obs[p].snap, IdOf(p))
         /\ ReadMisses(p)]_vars

\* C5: a get_all_items that meets no failure answers 404 "No items found."
\* exactly when the table is empty, and otherwise 200 with one entry per
\* stored row carrying its id, name and description (N entries for the N
\* rows that N creates stored); no step of a get_all_items invocation
\* changes the table.
C5_ListMatchesTable ==
    [][\A p \in Procs :
         /\ Settled(p, "get_all_items") =>
               /\ (obs[p].snap = EmptyMap) <=> (out'.resp = TextResp(404, "No items found."))
               /\ obs[p].snap # EmptyMap =>
                     /\ out'.resp.status = 200
                     /\ out'.resp.rows = RowsOf(obs[p].snap)
                     /\ Cardinality(out'.resp.rows) = Cardinality(DOMAIN obs[p].snap)
         /\ inv[p].op = "get_all_items" /\ inv'[p] # inv[p] => items' = items]_vars

Statuses == {200, 201, 400, 404, 500}
Generic == {"Database error occurred.", "An unexpected error occurred."}

\* C6: every invocation ends with a response whose status is one of 200,
\* 201, 400, 404, 500, and a 500 carries one of the two generic texts.  A
\* body that is unparsable or no object is answered "An unexpected error
\* occurred."; a failed connect, a statement the server rejects and a failed
\* COMMIT raise psycopg2.DatabaseError and are answered "Database error
\* occurred."; what raises another exception class (PoolError of the
\* exhausted pool) is answered "An unexpected error occurred.".
C6_FailuresAnswered500 ==
    [][/\ out' # NoOut =>
             /\ out'.resp.status \in Statuses
             /\ out'.resp.status = 500 => out'.resp.text \in Generic
       /\ out'.body.kind \in {"invalid", "array"} =>
             out'.resp = TextResp(500, "An unexpected error occurred.")
       /\ \A p \in Procs :
            /\ Returns(p) => out' # NoOut
            /\ Returns(p) /\ inv[p].pc = "getconn" =>
                  out'.resp = TextResp(500, "An unexpected error occurred.")
            /\ Returns(p) /\ inv[p].pc = "connect" =>
                  out'.resp = TextResp(500, "Database error occurred.")
            /\ Returns(p) /\ inv[p].pc \in {"execute", "commit"} =>
                  out'.resp.status = 500
            /\ Returns(p) /\ inv[p].pc \in {"execute", "commit"} /\ inv[p].conn \notin closed
                 /\ inv[p].op \in {"update_item", "delete_item"} =>
                  out'.resp = TextResp(500, "Database error occurred.")]_vars

\* Reached: a delete_item that had acquired a connection was answered 500
\* "Database error occurred." and left the connection checked out.
C6_Witness ==
    /\ out.op = "delete_item"
    /\ out.resp = TextResp(500, "Database error occurred.")
    /\ leaked # {}
    /\ calls = 1

\* C7: every row of the table, and every row an open transaction has written,
\* has a name and a description that are not None.
C7_RowsNonNull ==
    /\ \A i \in DOMAIN items : items[i].name # None /\ items[i].description # None
    /\ \A c \in DOMAIN txn : \A n \in 1..Len(txn[c]) :
          txn[c][n].kind \in {"insert", "update"} =>
              txn[c][n].name # None /\ txn[c][n].description # None

\* Reached: an update_item answered 200 and the table holds the row it wrote
\* over the row stored at start.
C7_Witness ==
    /\ out.op = "update_item"
    /\ out.resp.status = 200
    /\ 1 \in DOMAIN items
    /\ items[1] = Row("C", "D")

\* C8: no two in-flight invocations hold the same connection between their
\* acquire and their putconn, and the number of connections checked out is
\* at most maxconn.
C8_ExclusiveAndBounded ==
    /\ \A p, q \in Procs :
          p # q /\ inv[p].conn # 0 => inv[p].conn # inv[q].conn
    /\ Cardinality(DOMAIN used) <= maxconn

\* Thread p runs getconn in this step with no idle connection and exactly
\* maxconn connections checked out.
AcquiresAtCapacity(p) ==
    /\ inv[p].pc = "getconn"
    /\ inv'[p] # inv[p]
    /\ pool = <<>>
    /\ Cardinality(DOMAIN used) = maxconn

\* C9 as stated: an invocation that calls getconn while all connections up
\* to the maximum are checked out does not fail at once: its getconn step
\* does not end the invocation.
C9_AcquireBlocks ==
    [][\A p \in Procs : AcquiresAtCapacity(p) => ~Returns(p)]_vars

\* C9 amended: getconn never waits.  With no idle connection and exactly
\* maxconn connections checked out it raises PoolError at once: the
\* invocation ends in that step with 500 "An unexpected error occurred.",
\* having run no SQL and with the pool unchanged.  The one exception is a
\* key that another thread's getconn has entered in _used: then the
\* invocation is handed that checked-out connection.
C9_AcquireFailsAtOnce ==
    [][\A p \in Procs :
         /\ inv[p].pc = "getconn" => ENABLED getconn(p)
         /\ AcquiresAtCapacity(p) =>
               /\ UNCHANGED <<items, seq, txn, aborted, pool, used, rused>>
               /\ IF inv[p].tmp + 1 \in DOMAIN used
                  THEN /\ inv'[p].pc = "execute"
                       /\ inv'[p].conn = used[inv[p].tmp + 1]
                  ELSE /\ Returns(p)
                       /\ out'.resp = TextResp(500, "An unexpected error occurred.")]_vars

\* Reached: with maxconn connections checked out and none idle, a
\* get_all_items that drew the key maxconn + 1 was answered 500 "An
\* unexpected error occurred.".
C9_Witness ==
    /\ out.op = "get_all_items"
    /\ out.resp = TextResp(500, "An unexpected error occurred.")
    /\ keys = maxconn + 1
    /\ Cardinality(DOMAIN used) = maxconn
    /\ pool = <<>>

\* C10: an invocation that ends in 200, 201 or 404 releases its connection in
\* its last step, the putconn; an invocation in which cursor creation,
\* execute, fetch or commit raises ends in 500; and a connection whose
\* invocation ended that way stays checked out and is never put back among
\* the idle connections by any later step.
C10_ReleasedIffNoException ==
    [][/\ \A p \in Procs :
            /\ Returns(p) /\ out'.resp.status \in {200, 201, 404} =>
                  /\ inv[p].pc = "putconn"
                  /\ inv[p].conn \in Range(used)
                  /\ inv[p].conn \notin Range(used')
            /\ Returns(p) /\ inv[p].pc \in {"execute", "commit"} =>
                  out'.resp.status = 500
       /\ \A c \in leaked : c \in Range(used') /\ c \notin SeqSet(pool')]_vars

====
